---- MODULE Spec2Model ----
(***************************************************************************)
(* A model of the Markdown -> DOCX converter: the Gemini service           *)
(* (src/src/services/geminiService.js), the conversion pipeline            *)
(* (src/src/converter/docxConverter.js) and the parser front end           *)
(* (src/src/parser/markdownParser.js).                                     *)
(*                                                                         *)
(* Text is a sequence of one-character strings.  Characters outside ASCII  *)
(* are written by code point ("u2502" is the box-drawing vertical bar).    *)
(***************************************************************************)
EXTENDS Integers, Sequences, FiniteSets, TLC

(***************************************************************************)
(* Bounds of the model.                                                    *)
(***************************************************************************)
\* longest diagram text, in lines, drawn from DiagramLines
MaxDiagLines == 3
\* largest number of distinct labelled lines in a generated diagram
MaxFresh == 22

(***************************************************************************)
(* Characters and text helpers (the JavaScript String methods the code     *)
(* calls).                                                                 *)
(***************************************************************************)
NL == "\n"

Whitespace == {" ", "\t", NL}

\* the character class of isAsciiDiagram's boxChars
BoxChars ==
    { "u2500", "u2502", "u250C", "u2510", "u2514", "u2518", "u251C", "u2524",
      "u252C", "u2534", "u253C", "u2550", "u2551", "u2554", "u2557", "u255A",
      "u255D", "u2560", "u2563", "u2566", "u2569", "u256C", "u25BC", "u25B2",
      "u25C4", "u25BA", "u25CF", "u25CB", "u25A0", "u25A1", "u25AA", "u25AB" }

\* first replace() of fallbackDiagramConversion: the box characters and [ ]
FallbackStrip1 == BoxChars \cup {"[", "]"}

\* second replace() of fallbackDiagramConversion
FallbackStrip2 == {"-", "|", "+", "*"}

\* String.prototype.replace(/[set]/g, '')
RemoveChars(s, set) == SelectSeq(s, LAMBDA c : c \notin set)

RECURSIVE TrimStart(_)
TrimStart(s) ==
    IF s # <<>> /\ Head(s) \in Whitespace THEN TrimStart(Tail(s)) ELSE s

RECURSIVE TrimEnd(_)
TrimEnd(s) ==
    IF s # <<>> /\ s[Len(s)] \in Whitespace
    THEN TrimEnd(SubSeq(s, 1, Len(s) - 1))
    ELSE s

\* String.prototype.trim()
Trim(s) == TrimEnd(TrimStart(s))

\* String.prototype.split('\n'): the pieces between separators; the empty
\* text gives one empty piece
SplitLines(s) ==
    LET nl    == {k \in 1..Len(s) : s[k] = NL}
        nth(i) == IF i = 0 THEN 0
                  ELSE IF i > Cardinality(nl) THEN Len(s) + 1
                  ELSE CHOOSE p \in nl : Cardinality({q \in nl : q < p}) = i - 1
    IN  [i \in 1..(Cardinality(nl) + 1) |-> SubSeq(s, nth(i - 1) + 1, nth(i) - 1)]

\* Array.prototype.join(sep)
RECURSIVE Join(_, _)
Join(parts, sep) ==
    IF parts = <<>> THEN <<>>
    ELSE IF Len(parts) = 1 THEN parts[1]
    ELSE parts[1] \o sep \o Join(Tail(parts), sep)

\* [...new Set(xs)]: insertion order, first occurrence kept
RECURSIVE UniqueFrom(_, _)
UniqueFrom(xs, acc) ==
    IF xs = <<>> THEN acc
    ELSE IF \E j \in 1..Len(acc) : acc[j] = Head(xs)
         THEN UniqueFrom(Tail(xs), acc)
         ELSE UniqueFrom(Tail(xs), Append(acc, Head(xs)))

\* a dedupe that keeps the last occurrence of each entry
UniqueKeepLast(xs) ==
    SelectSeq([k \in 1..Len(xs) |-> IF \E j \in (k + 1)..Len(xs) : xs[j] = xs[k]
                                    THEN <<"dropped", k>> ELSE xs[k]],
              LAMBDA x : x = <<>> \/ x[1] # "dropped")

Unique(xs) == UniqueFrom(xs, <<>>)

\* Array.prototype.slice(0, n)
SliceTo(xs, n) == SubSeq(xs, 1, IF Len(xs) < n THEN Len(xs) ELSE n)

(***************************************************************************)
(* fallbackDiagramConversion (geminiService.js 179-211).                   *)
(***************************************************************************)
\* uniqueContent.slice(0, 20)
MaxComponents == 20

\* the minimum kept length is cleaned.length > 2
MinFragment == 2

CleanLine(line) == Trim(RemoveChars(RemoveChars(line, FallbackStrip1), FallbackStrip2))

\* the for loop filling textContent
TextContent(asciiDiagram) ==
    LET lines == SplitLines(asciiDiagram)
    IN  SelectSeq([k \in 1..Len(lines) |-> CleanLine(lines[k])],
                  LAMBDA t : Len(t) > MinFragment)

UniqueContent(asciiDiagram) ==
    SelectSeq(Unique(TextContent(asciiDiagram)), LAMBDA t : Len(t) > MinFragment)

SummarySep == <<NL, "u2022", " ">>

fallbackDiagramConversion(asciiDiagram) ==
    LET uniqueContent == UniqueContent(asciiDiagram)
        kept          == SliceTo(uniqueContent, MaxComponents)
    IN  [ success     |-> TRUE,
          type        |-> "architecture",
          title       |-> "System Architecture Diagram",
          description |-> "Diagram converted from ASCII representation",
          components  |-> [k \in 1..Len(kept) |-> [name |-> kept[k], description |-> <<>>]],
          connections |-> <<>>,
          summary     |-> Join(uniqueContent, SummarySep) ]

(***************************************************************************)
(* Diagram texts given to the fallback analyzer.                           *)
(***************************************************************************)
\* lines a diagram is drawn from: labels, framed and padded labels, labels
\* that are short or become short once the frame is stripped, an empty line
DiagramLines ==
    { <<"a", "b", "c">>,
      <<"u2502", " ", "a", "b", "c", " ", "u2502">>,
      <<"|", "a", "b", "c", "|">>,
      <<"a", "b", "d">>,
      <<"a", " ", "b">>,
      <<"a", "-", "b">>,
      <<"[", "a", "b", "]">>,
      <<"u250C", "u2500", "u2500", "u2510">>,
      <<"a", "b">>,
      <<>> }

\* the texts of 1..n lines
RECURSIVE TextsOfLines(_)
TextsOfLines(n) ==
    IF n = 1 THEN DiagramLines
    ELSE LET shorter == TextsOfLines(n - 1)
         IN  shorter \cup { t \o <<NL>> \o l : t \in shorter, l \in DiagramLines }

\* the k-th of 32 distinct five-letter labels, in a box
FreshLine(k) ==
    <<"u2502">> \o [j \in 1..5 |-> IF (k \div (2 ^ (j - 1))) % 2 = 1 THEN "y" ELSE "x"]
               \o <<"u2502">>

\* n labelled boxes, each drawn rep times, under a top border
GeneratedDiagram(n, rep) ==
    Join(<<<<"u2500">>>> \o [j \in 1..(n * rep) |-> FreshLine((j - 1) \div rep)], <<NL>>)

GeneratedDiagrams == { GeneratedDiagram(n, rep) : n \in 0..MaxFresh, rep \in 1..2 }

FallbackInputs == TextsOfLines(MaxDiagLines) \cup GeneratedDiagrams

(***************************************************************************)
(* Errors raised by a backend call or by decoding its reply.  The code     *)
(* looks at an error through its status, through includes() probes of its  *)
(* message and through the two regular expressions of extractRetryDelay:   *)
(* an error is its status (0: none), the set of probed substrings its      *)
(* message contains, and the number of seconds the regular expressions     *)
(* capture, in microseconds (NoHint: no match).                            *)
(***************************************************************************)
NoHint == -1

Signatures == {"404", "429", "503", "overloaded", "temporarily", "quota", "rate"}

Statuses == {0, 400, 404, 429, 503}

\* "retry in 0s", "retry in 17.36922s", "retry in 25s"
Hints == {0, 17369220, 25000000}

Error(kind, status, sigs, hint) ==
    [kind |-> kind, status |-> status, sigs |-> sigs, hint |-> hint]

\* every error the code can tell apart by status and message probes
AllErrors == [kind : {"api"}, status : Statuses, sigs : SUBSET Signatures, hint : {NoHint}]

\* errors of model.generateContent / result.response met by a conversion:
\* permanent ones, ones carrying each transient signature alone, the usual
\* rate-limit and overload errors, and rate-limit errors suggesting a delay
ApiErrors ==
    { Error("api", 400, {}, NoHint),
      Error("api", 0, {}, NoHint),
      Error("api", 404, {}, NoHint),
      Error("api", 0, {"temporarily"}, NoHint),
      Error("api", 0, {"quota"}, NoHint),
      Error("api", 0, {"rate"}, NoHint),
      Error("api", 429, {"429", "quota", "rate"}, NoHint),
      Error("api", 503, {"503", "overloaded"}, NoHint) }
        \cup { Error("api", 429, {"429", "quota", "rate"}, h) : h \in Hints }

\* the SyntaxError of JSON.parse: no status, a message that quotes the reply
DecodeErrors ==
    { Error("decode", 0, {}, NoHint),
      Error("decode", 0, {"rate"}, NoHint),
      Error("decode", 0, {"temporarily"}, NoHint) }

\* the errors a conversion meets: a permanent one, one each function alone
\* retries, one both retry, and a rate-limit error suggesting a delay
ConversionErrors ==
    { Error("api", 400, {}, NoHint),
      Error("api", 404, {}, NoHint),
      Error("api", 0, {"quota"}, NoHint),
      Error("api", 503, {"503", "overloaded"}, NoHint),
      Error("api", 429, {"429", "quota", "rate"}, 17369220) }

\* the TypeError of reading parsed.elements of a JSON null
NullReplyError == [kind |-> "type", status |-> 0, sigs |-> {}, hint |-> NoHint]

NoError == [kind |-> "none", status |-> 0, sigs |-> {}, hint |-> NoHint]

(***************************************************************************)
(* RETRY_CONFIG, extractRetryDelay, getRetryDelay (geminiService.js 9-49). *)
(* Delays are in microseconds, so that the jittered delay stays integral.  *)
(***************************************************************************)
maxRetries == 2

baseDelay == 2000

maxDelay == 20000

\* Math.random() is one of 0/JitterSteps .. (JitterSteps-1)/JitterSteps
JitterSteps == 3

NoDelay == -1

Min(a, b) == IF a < b THEN a ELSE b

CeilDiv(a, b) == (a + b - 1) \div b

\* milliseconds, or NoDelay for null
extractRetryDelay(error) ==
    IF error.hint # NoHint
    THEN CeilDiv(error.hint, 1000) + 500
    ELSE NoDelay

\* the delay with the exponent one too high and no cap on a suggested delay
getRetryDelayNextPower(n, suggestedDelay, rand) ==
    IF suggestedDelay # NoDelay /\ suggestedDelay # 0
    THEN suggestedDelay * 1000
    ELSE Min(baseDelay * (2 ^ (n + 1)), maxDelay) * (800 + (400 * rand) \div JitterSteps)

\* microseconds
getRetryDelay(n, suggestedDelay, rand) ==
    IF suggestedDelay # NoDelay /\ suggestedDelay # 0
    THEN Min(suggestedDelay, maxDelay) * 1000
    ELSE Min(baseDelay * (2 ^ n), maxDelay) * (800 + (400 * rand) \div JitterSteps)

\* isRetryable of convertDiagramWithAI (157-160)
DiagramRetryable(error) ==
    \/ error.status = 404 \/ error.status = 503 \/ error.status = 429
    \/ "404" \in error.sigs \/ "503" \in error.sigs
    \/ "overloaded" \in error.sigs \/ "temporarily" \in error.sigs

\* isRetryable of parseDocumentWithAI (335-339)
DocumentRetryable(error) ==
    \/ "429" \in error.sigs
    \/ "503" \in error.sigs
    \/ "quota" \in error.sigs
    \/ "overloaded" \in error.sigs
    \/ "rate" \in error.sigs

isRetryable(fn, error) ==
    IF fn = "dia" THEN DiagramRetryable(error) ELSE DocumentRetryable(error)

(***************************************************************************)
(* Replies of the backend, as JSON.parse sees them after the clean-up.     *)
(***************************************************************************)
\* longest document, in blocks
MaxBlocks == 2

\* longest AI element sequence
MaxAIElements == 2

DiagramText == <<"u250C", "u2500", "u2510", NL, "u2502", "a", "b", "c", "u2502">>

OtherDiagramText == <<"u25BC", " ", "a", "b", "c", NL, "a", "b">>

CodeText == <<"x", "=", "1", NL, "y">>

AIElements ==
    { [type |-> "paragraph", payload |-> "ok"],
      [type |-> "code",      payload |-> "ok"],
      [type |-> "code",      payload |-> "missing"] }

RECURSIVE SeqsUpTo(_, _)
SeqsUpTo(S, n) ==
    IF n = 0 THEN {<<>>}
    ELSE LET shorter == SeqsUpTo(S, n - 1)
         IN  shorter \cup { Append(q, x) : q \in shorter, x \in S }

\* JSON.parse(text) for the document call: "invalid" raises a SyntaxError
DocReplies ==
    [json : {"invalid"}, error : DecodeErrors, hasElements : {FALSE}, elements : {<<>>}]
        \cup [json : {"null"}, error : {NoError}, hasElements : {FALSE}, elements : {<<>>}]
        \cup [json : {"object"}, error : {NoError}, hasElements : {FALSE}, elements : {<<>>}]
        \cup [json : {"object"}, error : {NoError}, hasElements : {TRUE},
              elements : SeqsUpTo(AIElements, MaxAIElements)]

NullComponent == [null |-> TRUE]

Component(n) == [name |-> n, description |-> <<>>]

\* the objects a diagram reply decodes to: a record of the fields it carries
DiagramObjects ==
    { [type |-> "flowchart", title |-> "T", description |-> "D",
       components |-> <<Component(<<"a">>)>>,
       connections |-> <<[from |-> "a", to |-> "b", label |-> "l"]>>,
       summary |-> <<"s">>],
      [success |-> FALSE, type |-> "other", title |-> "T", description |-> "",
       components |-> <<>>, connections |-> <<>>, summary |-> <<"s", NL, "t">>],
      [title |-> "T", components |-> <<Component(<<"a">>), NullComponent>>],
      [unrelated |-> TRUE] }

DiagramReplies ==
    [json : {"invalid"}, error : DecodeErrors, value : {[unrelated |-> TRUE]}]
        \cup [json : {"object"}, error : {NoError}, value : DiagramObjects]

\* the replies a conversion meets
ConversionDocReplies ==
    { r \in DocReplies : r.json = "invalid" => r.error.sigs = {} }

\* an undecodable one, a well-formed one and one with a null component
ConversionDiagramReplies ==
    { r \in DiagramReplies :
        IF r.json = "invalid"
        THEN r.error.sigs = {}
        ELSE "title" \in DOMAIN r.value /\ "success" \notin DOMAIN r.value }

(***************************************************************************)
(* Markdown documents and the tokens markdown-it gives for them.           *)
(***************************************************************************)
Blocks ==
    { [kind |-> "paragraph",  content |-> <<"p">>],
      [kind |-> "fence",      content |-> CodeText],
      [kind |-> "fence",      content |-> DiagramText],
      [kind |-> "code_block", content |-> DiagramText] }

Markdowns == SeqsUpTo(Blocks, MaxBlocks)

Token(type, content) == [type |-> type, content |-> content, info |-> ""]

BlockTokens(b) ==
    IF b.kind = "paragraph"
    THEN <<Token("paragraph_open", <<>>), Token("inline", b.content),
           Token("paragraph_close", <<>>)>>
    ELSE <<Token(b.kind, b.content)>>

\* parseToTokens: the tokens of the blocks in order, none for the empty
\* document
RECURSIVE parseToTokens(_)
parseToTokens(md) ==
    IF md = <<>> THEN <<>> ELSE BlockTokens(Head(md)) \o parseToTokens(Tail(md))

\* the test anchored at the start of the text
isAsciiDiagramAtStart(code) == code # <<>> /\ code[1] \in BoxChars

\* isAsciiDiagram: boxChars.test(code)
isAsciiDiagram(code) == \E k \in 1..Len(code) : code[k] \in BoxChars

(***************************************************************************)
(* Output elements: what kind of paragraph or table, and the index of the  *)
(* AI element or token it was rendered from.                               *)
(***************************************************************************)
Elem(kind, from) == [kind |-> kind, from |-> from]

\* createCodeBlock(code, language)
createCodeBlock(code, language, from) ==
    (IF language # "" THEN <<Elem("code_label", from)>> ELSE <<>>)
        \o [k \in 1..Len(SplitLines(code)) |-> Elem("code_line", from)]
        \o <<Elem("spacer", from)>>

\* the element an AI element raises on: createCodeBlock(undefined, ..)
AIElementRaises(e) == e.type = "code" /\ e.payload = "missing"

\* one case of the switch of processAIParsedElements
RenderAIElement(e, from) ==
    CASE e.type = "heading"   -> <<Elem("heading", from)>>
      [] e.type = "paragraph" -> <<Elem("paragraph", from)>>
      [] e.type = "code"      -> createCodeBlock(CodeText, "js", from)
      [] e.type = "hr"        -> <<Elem("hr", from)>>
      [] OTHER                -> <<>>

\* the loop with unshift in place of push
RECURSIVE RenderAIElementsUnshift(_, _)
RenderAIElementsUnshift(elements, k) ==
    IF k > Len(elements)
    THEN <<>>
    ELSE RenderAIElementsUnshift(elements, k + 1) \o RenderAIElement(elements[k], k)

\* the for loop of processAIParsedElements from element k on
RECURSIVE RenderAIElementsFrom(_, _)
RenderAIElementsFrom(elements, k) ==
    IF k > Len(elements)
    THEN <<>>
    ELSE RenderAIElement(elements[k], k) \o RenderAIElementsFrom(elements, k + 1)

\* processAIParsedElements: the elements, or a raise at the first bad one
processAIParsedElements(parsed) ==
    [ raised   |-> \E k \in 1..Len(parsed.elements) : AIElementRaises(parsed.elements[k]),
      elements |-> RenderAIElementsFrom(parsed.elements, 1) ]

Has(r, f) == f \in DOMAIN r

\* JavaScript truthiness of a field that is absent or a string
Truthy(r, f) == Has(r, f) /\ r[f] # ""

\* the same for a field held as a sequence of characters
TruthyText(r, f) == Has(r, f) /\ r[f] # <<>>

NonEmptyArray(r, f) == Has(r, f) /\ Len(r[f]) > 0

\* createDiagramBlock, from the analysis on: the body of the try, and the
\* code block the catch appends to what the try had pushed
createDiagramBlock(asciiContent, analysis, from) ==
    LET title   == IF Truthy(analysis, "title") THEN <<Elem("diagram_title", from)>> ELSE <<>>
        descr   == IF Truthy(analysis, "description")
                   THEN <<Elem("diagram_description", from)>> ELSE <<>>
        hasComp == NonEmptyArray(analysis, "components")
        badComp == hasComp /\ \E k \in 1..Len(analysis.components) :
                                   analysis.components[k] = NullComponent
        table   == IF hasComp THEN <<Elem("components_table", from)>> ELSE <<>>
        conns   == IF NonEmptyArray(analysis, "connections")
                   THEN <<Elem("flow_label", from)>>
                        \o [k \in 1..Len(analysis.connections) |-> Elem("connection", from)]
                   ELSE <<>>
        lines   == IF ~hasComp /\ TruthyText(analysis, "summary")
                   THEN SelectSeq(SplitLines(analysis.summary), LAMBDA l : Trim(l) # <<>>)
                   ELSE <<>>
        summary == [k \in 1..Len(lines) |-> Elem("summary_line", from)]
    IN  IF badComp
        THEN title \o descr \o createCodeBlock(asciiContent, "text", from)
        ELSE title \o descr \o table \o conns \o summary \o <<Elem("spacer", from)>>

\* createAIDiagram (314-397): the elements, or the TypeError that
\* createComponentsTable raises on a component that is null
createAIDiagram(diagram, from) ==
    LET title   == IF Truthy(diagram, "title") THEN <<Elem("diagram_title", from)>> ELSE <<>>
        descr   == IF Truthy(diagram, "description")
                   THEN <<Elem("diagram_description", from)>> ELSE <<>>
        hasComp == NonEmptyArray(diagram, "components")
        table   == IF hasComp THEN <<Elem("components_table", from)>> ELSE <<>>
        conns   == IF NonEmptyArray(diagram, "connections")
                   THEN <<Elem("flow_label", from)>>
                        \o [k \in 1..Len(diagram.connections) |-> Elem("connection", from)]
                   ELSE <<>>
    IN  [raised   |-> hasComp /\ \E k \in 1..Len(diagram.components) :
                                     diagram.components[k] = NullComponent,
         elements |-> title \o descr \o table \o conns \o <<Elem("spacer", from)>>]

(***************************************************************************)
(* The clean-up and decoding of a reply text (geminiService.js 140-145 and *)
(* 324-329).  The JSON texts are the objects {"t":"<body>"}; a backtick is  *)
(* the character "tick", a double quote "quote", a backslash "bslash".     *)
(***************************************************************************)
Fence == <<"tick", "tick", "tick">>

JsonFence == Fence \o <<"j", "s", "o", "n">>

\* text.replace(/<pat>\n?/g, ""), leftmost matches first
RECURSIVE RemoveAll(_, _)
RemoveAll(text, pat) ==
    IF Len(text) < Len(pat) THEN text
    ELSE IF SubSeq(text, 1, Len(pat)) = pat
         THEN LET rest == SubSeq(text, Len(pat) + 1, Len(text))
              IN  RemoveAll(IF rest # <<>> /\ Head(rest) = NL THEN Tail(rest) ELSE rest, pat)
         ELSE <<Head(text)>> \o RemoveAll(Tail(text), pat)

\* response.text().trim(), the two replace() calls and the second trim()
CleanReply(text) == Trim(RemoveAll(RemoveAll(Trim(text), JsonFence), Fence))

\* the JSON text of the object whose field t is the string body
JsonText(body) == <<"{", "quote", "t", "quote", ":", "quote">> \o body \o <<"quote", "}">>

\* JSON.parse on these texts: the object, or a SyntaxError
JSONParse(text) ==
    IF /\ Len(text) >= 8
       /\ SubSeq(text, 1, 6) = SubSeq(JsonText(<<>>), 1, 6)
       /\ SubSeq(text, Len(text) - 1, Len(text)) = <<"quote", "}">>
       /\ \A k \in 7..(Len(text) - 2) : text[k] \notin {"quote", "bslash", NL}
    THEN [ok |-> TRUE, t |-> SubSeq(text, 7, Len(text) - 2)]
    ELSE [ok |-> FALSE, t |-> <<>>]

(***************************************************************************)
(* Paragraphs: processInlineTokens (538-608).  A paragraph is a sequence   *)
(* of segments; a segment is a text inside the spans named by its          *)
(* wrappers, outermost first; the text of segment k is k.                  *)
(***************************************************************************)
InlineToken(type, content) == [type |-> type, content |-> content]

RECURSIVE Opens(_)
Opens(w) ==
    IF w = <<>> THEN <<>> ELSE <<InlineToken(Head(w) \o "_open", 0)>> \o Opens(Tail(w))

RECURSIVE Closes(_)
Closes(w) ==
    IF w = <<>> THEN <<>> ELSE Closes(Tail(w)) \o <<InlineToken(Head(w) \o "_close", 0)>>

\* the children of the inline token of the paragraph, from segment k on
RECURSIVE InlineTokens(_, _)
InlineTokens(segs, k) ==
    IF k > Len(segs) THEN <<>>
    ELSE Opens(segs[k]) \o <<InlineToken("text", k)>> \o Closes(segs[k])
             \o InlineTokens(segs, k + 1)

\* createTextRun(text, formatting), and the TextRun of a link
Run(text, formatting, link) ==
    [text |-> text, bold |-> formatting.bold, italic |-> formatting.italic,
     strike |-> formatting.strikethrough, link |-> link]

\* a TextRun given neither bold, italics nor strike
Unformatted == [bold |-> FALSE, italic |-> FALSE, strikethrough |-> FALSE]

\* the for loop of processInlineTokens from token i on
RECURSIVE InlineScan(_, _, _, _)
InlineScan(toks, i, formatting, runs) ==
    IF i > Len(toks) THEN runs
    ELSE LET type == toks[i].type IN
         CASE type = "text" ->
                  InlineScan(toks, i + 1, formatting,
                             Append(runs, Run(toks[i].content, formatting, FALSE)))
           [] type = "strong_open"  -> InlineScan(toks, i + 1, [formatting EXCEPT !.bold = TRUE], runs)
           [] type = "strong_close" -> InlineScan(toks, i + 1, [formatting EXCEPT !.bold = FALSE], runs)
           [] type = "em_open"      -> InlineScan(toks, i + 1, [formatting EXCEPT !.italic = TRUE], runs)
           [] type = "em_close"     -> InlineScan(toks, i + 1, [formatting EXCEPT !.italic = FALSE], runs)
           [] type = "s_open"  -> InlineScan(toks, i + 1, [formatting EXCEPT !.strikethrough = TRUE], runs)
           [] type = "s_close" -> InlineScan(toks, i + 1, [formatting EXCEPT !.strikethrough = FALSE], runs)
           [] type = "link_open" ->
                  IF i + 1 <= Len(toks) /\ toks[i + 1].type = "text"
                  THEN InlineScan(toks, i + 2, formatting,
                                  Append(runs, Run(toks[i + 1].content, Unformatted, TRUE)))
                  ELSE InlineScan(toks, i + 1, formatting, runs)
           [] OTHER -> InlineScan(toks, i + 1, formatting, runs)

processInlineTokens(toks) == InlineScan(toks, 1, Unformatted, <<>>)

\* case 'heading_open' of processTokens: parseInt(token.tag.substring(1))
HeadingLevel(tag) == tag[2]

(***************************************************************************)
(* findClosingToken (474-484).  Indices are counted from 1.                *)
(***************************************************************************)
\* closeType.replace('_close', '_open')
OpenTypeOf(closeType) ==
    CASE closeType = "table_close"       -> "table_open"
      [] closeType = "bullet_list_close" -> "bullet_list_open"
      [] closeType = "blockquote_close"  -> "blockquote_open"
      [] OTHER                           -> closeType

\* token.type.replace('_open', '_close')
CloseTypeOf(openType) ==
    CASE openType = "table_open"       -> "table_close"
      [] openType = "bullet_list_open" -> "bullet_list_close"
      [] openType = "blockquote_open"  -> "blockquote_close"
      [] OTHER                         -> openType

\* the for loop of findClosingToken at index i
RECURSIVE ClosingScan(_, _, _, _)
ClosingScan(tokens, i, depth, closeType) ==
    IF i > Len(tokens) THEN Len(tokens)
    ELSE LET d1 == IF tokens[i].type = OpenTypeOf(closeType) THEN depth + 1 ELSE depth
             d2 == IF tokens[i].type = closeType THEN d1 - 1 ELSE d1
         IN  IF d2 = 0 THEN i ELSE ClosingScan(tokens, i + 1, d2, closeType)

\* the first token of closeType after startIndex, nesting not counted
findFirstClose(tokens, startIndex, closeType) ==
    IF \E i \in (startIndex + 1)..Len(tokens) : tokens[i].type = closeType
    THEN CHOOSE i \in (startIndex + 1)..Len(tokens) :
             /\ tokens[i].type = closeType
             /\ \A k \in (startIndex + 1)..(i - 1) : tokens[k].type # closeType
    ELSE Len(tokens)

findClosingToken(tokens, startIndex, closeType) ==
    ClosingScan(tokens, startIndex + 1, 1, closeType)

(***************************************************************************)
(* Tables: createTable (872-976) on the tokens of a table, createAITable   *)
(* (203-261) on the headers and rows of an AI element.  A rendered row is  *)
(* the sequence of its cells: "th", "td", or "pad" for a padding cell.     *)
(***************************************************************************)
\* n cell texts
Cells(n) == [j \in 1..n |-> "c"]

\* the tokens markdown-it gives for one row of n cells
RowTokens(n, cell) ==
    <<Token("tr_open", <<>>)>>
        \o [j \in 1..(3 * n) |->
               Token(CASE j % 3 = 1 -> cell \o "_open"
                       [] j % 3 = 2 -> "inline"
                       [] OTHER     -> cell \o "_close", <<>>)]
        \o <<Token("tr_close", <<>>)>>

\* the token range of a table: table_open, the header row in thead, the
\* other rows in tbody, table_close
RECURSIVE BodyTokens(_)
BodyTokens(shape) ==
    IF shape = <<>> THEN <<>> ELSE RowTokens(Head(shape), "td") \o BodyTokens(Tail(shape))

TableTokens(shape) ==
    <<Token("table_open", <<>>)>>
        \o (IF shape = <<>> THEN <<>>
            ELSE <<Token("thead_open", <<>>)>> \o RowTokens(Head(shape), "th")
                     \o <<Token("thead_close", <<>>), Token("tbody_open", <<>>)>>
                     \o BodyTokens(Tail(shape)) \o <<Token("tbody_close", <<>>)>>)
        \o <<Token("table_close", <<>>)>>

\* the switch of createTable over the tokens left; arrays holds the row
\* arrays made so far, cur is the one currentRow refers to
RECURSIVE TableScan(_, _)
TableScan(toks, st) ==
    IF toks = <<>> THEN st
    ELSE LET t == Head(toks).type
         IN  TableScan(Tail(toks),
                CASE t = "thead_open"  -> [st EXCEPT !.isHeader = TRUE]
                  [] t = "thead_close" -> [st EXCEPT !.isHeader = FALSE]
                  [] t = "tr_open" ->
                        [st EXCEPT !.arrays = Append(@, <<>>), !.cur = Len(st.arrays) + 1]
                  [] t = "tr_close" ->
                        IF Len(st.arrays[st.cur]) > 0
                        THEN [st EXCEPT !.rows = Append(@, st.cur)]
                        ELSE st
                  [] t \in {"th_close", "td_close"} ->
                        [st EXCEPT !.arrays[st.cur] =
                                       Append(@, IF t = "th_close" THEN "th" ELSE "td")]
                  [] OTHER -> st)

\* a column count that is the cell count of the first row
ColumnCountOfFirst(rows) == Len(rows[1])

\* Math.max(...rows.map(r => r.cells.length))
ColumnCount(rows) ==
    CHOOSE n \in {Len(rows[k]) : k \in 1..Len(rows)} :
        \A k \in 1..Len(rows) : Len(rows[k]) <= n

\* createTable: a Paragraph if no row has cells, else the table whose rows
\* are padded while they are shorter than columnCount
createTable(toks) ==
    LET st   == TableScan(toks, [rows |-> <<>>, arrays |-> <<<<>>>>, cur |-> 1,
                                 isHeader |-> FALSE])
        rows == [k \in 1..Len(st.rows) |-> st.arrays[st.rows[k]]]
    IN  IF rows = <<>>
        THEN [table |-> FALSE, rows |-> <<>>]
        ELSE [table |-> TRUE,
              rows  |-> [k \in 1..Len(rows) |->
                            rows[k] \o [j \in 1..(ColumnCount(rows) - Len(rows[k])) |-> "pad"]]]

\* createAITable: the header row if there are headers, then one row per
\* data row, each with the cells it was given
createAITable(headers, rows) ==
    [table |-> TRUE,
     rows  |-> (IF Len(headers) > 0 THEN <<[j \in 1..Len(headers) |-> "th"]>> ELSE <<>>)
                   \o [k \in 1..Len(rows) |-> [j \in 1..Len(rows[k]) |-> "td"]]]

(***************************************************************************)
(* The switch of processTokens (402-469) on any token sequence.  The walk  *)
(* keeps the indices it dispatched, the elements pushed and whether a      *)
(* TypeError was raised.                                                   *)
(***************************************************************************)
\* one Paragraph per token of the type among the tokens from a to b
ElemsPer(tokens, a, b, type, kind, from) ==
    LET hits == {k \in a..b : tokens[k].type = type}
    IN  [n \in 1..Cardinality(hits) |-> Elem(kind, from)]

\* the for loop of processTokens at index i
RECURSIVE WalkTokens(_, _, _)
WalkTokens(tokens, i, acc) ==
    IF i > Len(tokens) THEN acc
    ELSE LET type == tokens[i].type
             seen == [acc EXCEPT !.dispatched = Append(@, i)]
             end  == findClosingToken(tokens, i, CloseTypeOf(type))
             push(es) == [seen EXCEPT !.elements = @ \o es]
         IN  CASE type = "heading_open" ->
                      \* headingContent.content with headingContent undefined
                      IF i + 1 > Len(tokens)
                      THEN [seen EXCEPT !.raised = TRUE]
                      ELSE WalkTokens(tokens, i + 3, push(<<Elem("heading", i)>>))
               [] type = "paragraph_open" ->
                      WalkTokens(tokens, i + 3,
                                 IF i + 1 <= Len(tokens) /\ tokens[i + 1].type = "inline"
                                 THEN push(<<Elem("paragraph", i)>>) ELSE seen)
               [] type = "table_open" ->
                      WalkTokens(tokens, end + 1,
                                 push(<<Elem(IF createTable(SubSeq(tokens, i, end)).table
                                             THEN "table" ELSE "empty_paragraph", i)>>))
               [] type = "bullet_list_open" ->
                      WalkTokens(tokens, end + 1,
                                 push(ElemsPer(tokens, i, end, "list_item_close", "list_item", i)))
               [] type = "blockquote_open" ->
                      WalkTokens(tokens, end + 1,
                                 push(ElemsPer(tokens, i + 1, end - 1, "inline", "quote", i)))
               [] type = "hr" -> WalkTokens(tokens, i + 1, push(<<Elem("hr", i)>>))
               [] OTHER -> WalkTokens(tokens, i + 1, seen)

processTokens(tokens) ==
    WalkTokens(tokens, 1, [raised |-> FALSE, dispatched |-> <<>>, elements |-> <<>>])

(***************************************************************************)
(* State.                                                                  *)
(***************************************************************************)
VARIABLES
    model,        \* geminiService.js: model !== null
    useGemini,    \* geminiService.js: useGemini
    pc,           \* where the request in progress stands
    markdown,     \* convertToDocx(markdown, useAI)
    useAI,
    tokens,       \* parseToTokens(markdown)
    idx,          \* processTokens: i, counted from 1
    docElements,
    usedAI,
    diagramText,  \* convertDiagramWithAI(asciiDiagram)
    fn,           \* the AI function running: "doc", "dia" or "none"
    attempt,      \* its loop counter
    lastError,
    sleepUs,      \* the delay being slept, in microseconds
    calls,        \* backend calls it has made
    sleepCount,   \* backoff sleeps it has made
    replies,      \* backend calls of it that were answered rather than rejected
    aiParsed,     \* what parseDocumentWithAI returned
    analysis,     \* what convertDiagramWithAI returned
    path,         \* the conversion-level states entered, in order
    fbInput,      \* the diagram text given to the fallback analyzer
    fbResult,     \* what it returned
    clsError,     \* the error given to the two retry tests
    clsResult,    \* what each of them answered
    argument,     \* the input of a function called on its own
    result,       \* what it returned
    timers,       \* editor script: the timeouts set and neither fired nor cleared
    debounceTimer,\* editor script: debounceTimer
    inputs,       \* input events the editor has had
    previewed,    \* updatePreview has run since the last input event
    saved         \* saveToCache has run since the last input event

serviceVars == <<model, useGemini>>

inputVars == <<markdown, useAI>>

walkVars == <<tokens, idx, docElements, usedAI>>

loopVars == <<fn, attempt, lastError, sleepUs, calls, sleepCount, replies>>

resultVars == <<aiParsed, analysis>>

obsVars == <<path>>

convVars == <<pc, inputVars, walkVars, diagramText, loopVars, resultVars, obsVars>>

fbVars == <<fbInput, fbResult>>

clsVars == <<clsError, clsResult>>

callVars == <<argument, result>>

\* the variables of the functions checked on their own
editorVars == <<timers, debounceTimer, inputs, previewed, saved>>

pureVars == <<fbVars, clsVars, callVars, editorVars>>

vars == <<serviceVars, convVars, pureVars>>

NullValue == [null |-> TRUE]

NoResult == [success |-> FALSE]

\* module load (geminiService.js 4-6)
ServiceInit ==
    /\ model = FALSE
    /\ useGemini = TRUE

\* no request in progress
ConvInit ==
    /\ pc = "idle"
    /\ markdown = <<>>
    /\ useAI = FALSE
    /\ tokens = <<>>
    /\ idx = 1
    /\ docElements = <<>>
    /\ usedAI = FALSE
    /\ diagramText = <<>>
    /\ fn = "none"
    /\ attempt = 0
    /\ lastError = NoError
    /\ sleepUs = 0
    /\ calls = 0
    /\ sleepCount = 0
    /\ replies = 0
    /\ aiParsed = NullValue
    /\ analysis = NullValue
    /\ path = <<>>

FallbackIdle ==
    /\ fbInput = <<>>
    /\ fbResult = NoResult

NoClass == [none |-> TRUE]

ClassifyIdle ==
    /\ clsError = NoError
    /\ clsResult = NoClass

\* a function called on its own has not returned yet / has returned v
NotCalled == [returned |-> FALSE]

Returned(v) == [returned |-> TRUE, value |-> v]

CallIdle ==
    /\ argument = <<>>
    /\ result = NotCalled

\* let debounceTimer = null
NoTimer == [func |-> "none", left |-> 0]

\* the editor page has just loaded
EditorIdle ==
    /\ timers = {}
    /\ debounceTimer = NoTimer
    /\ inputs = 0
    /\ previewed = FALSE
    /\ saved = FALSE

(***************************************************************************)
(* The service switches (geminiService.js 54-96).  They run between the    *)
(* steps of a request only where the request is suspended on the network   *)
(* or on a timer.                                                          *)
(***************************************************************************)
Suspended == pc \in {"idle", "doc_call", "doc_sleep", "dia_call", "dia_sleep"}

\* what a call of the service does to model and useGemini:
\* initializeGemini(apiKey) with no key, a key, or a key the client
\* rejects; disableGemini(); enableGemini()
ServiceCall(call) ==
    CASE call = "nokey"   -> model' = model /\ useGemini' = FALSE
      [] call = "ok"      -> model' = TRUE /\ useGemini' = TRUE
      [] call = "throws"  -> model' = model /\ useGemini' = FALSE
      [] call = "disable" -> model' = model /\ useGemini' = FALSE
      [] call = "enable"  -> model' = model /\ useGemini' = (IF model THEN TRUE ELSE useGemini)

initializeGemini(outcome) ==
    /\ Suspended
    /\ ServiceCall(outcome)
    /\ UNCHANGED <<convVars, pureVars>>

disableGemini ==
    /\ Suspended
    /\ ServiceCall("disable")
    /\ UNCHANGED <<convVars, pureVars>>

enableGemini ==
    /\ Suspended
    /\ ServiceCall("enable")
    /\ UNCHANGED <<convVars, pureVars>>

isGeminiAvailable == model /\ useGemini

(***************************************************************************)
(* The retry loop shared by convertDiagramWithAI (126-174) and             *)
(* parseDocumentWithAI (310-350).                                          *)
(***************************************************************************)
CallPc(f) == IF f = "dia" THEN "dia_call" ELSE "doc_call"

\* every sleep taken for that of the document function
SleepPcDocument(f) == "doc_sleep"

SleepPc(f) == IF f = "dia" THEN "dia_sleep" ELSE "doc_sleep"

ReturnedPc(f) == IF f = "dia" THEN "dia_returned" ELSE "doc_returned"

\* the give-up test with its negation lost
GivesUpInverted(f, error, n) == isRetryable(f, error) \/ n >= maxRetries

\* if (!isRetryable || attempt >= RETRY_CONFIG.maxRetries)
GivesUp(f, error, n) == ~isRetryable(f, error) \/ n >= maxRetries

\* the diagram texts the functions are called with
DiagramTexts == {DiagramText, OtherDiagramText}

\* fallbackDiagramConversion is a pure function: its values on these texts
FallbackOfText == [text \in DiagramTexts |-> fallbackDiagramConversion(text)]

\* the value returned when the backend is not used or has failed
FallbackValue(f, asciiDiagram) ==
    IF f = "dia"
    THEN IF asciiDiagram \in DiagramTexts
         THEN FallbackOfText[asciiDiagram]
         ELSE fallbackDiagramConversion(asciiDiagram)
    ELSE NullValue

\* the test without the switch
BackendOffNoSwitch == ~model

\* if (!model || !useGemini)
BackendOff == ~model \/ ~useGemini

\* the function returns value v
Return(f, v) ==
    /\ pc' = ReturnedPc(f)
    /\ IF f = "dia"
       THEN analysis' = v /\ UNCHANGED aiParsed
       ELSE aiParsed' = v /\ UNCHANGED analysis

\* if (!model || !useGemini) return <fallback>; otherwise the loop is
\* entered and attempt 0 calls the backend without sleeping
EnterFunction(f, asciiDiagram) ==
    /\ fn' = f
    /\ diagramText' = asciiDiagram
    /\ attempt' = 0
    /\ lastError' = NoError
    /\ sleepUs' = 0
    /\ sleepCount' = 0
    /\ replies' = 0
    /\ IF BackendOff
       THEN /\ Return(f, FallbackValue(f, asciiDiagram))
            /\ calls' = 0
       ELSE /\ pc' = CallPc(f)
            /\ calls' = 1
            /\ UNCHANGED resultVars

\* the catch block, and for a retry the head of the next iteration up to
\* its sleep
Caught(error) ==
    /\ lastError' = error
    /\ IF GivesUp(fn, error, attempt)
       THEN /\ Return(fn, FallbackValue(fn, diagramText))
            /\ UNCHANGED <<attempt, sleepUs, sleepCount>>
       ELSE /\ attempt' = attempt + 1
            /\ \E rand \in 0..(JitterSteps - 1) :
                   sleepUs' = getRetryDelay(attempt' - 1, extractRetryDelay(error), rand)
            /\ sleepCount' = sleepCount + 1
            /\ pc' = SleepPc(fn)
            /\ UNCHANGED resultVars
    /\ UNCHANGED <<fn, calls, diagramText, inputVars, walkVars, obsVars>>

\* the sleep ends and the backend is called again
SleepDone ==
    /\ pc \in {"doc_sleep", "dia_sleep"}
    /\ pc' = CallPc(fn)
    /\ calls' = calls + 1
    /\ sleepUs' = 0
    /\ UNCHANGED <<fn, attempt, lastError, sleepCount, replies, path>>
    /\ UNCHANGED <<inputVars, walkVars, diagramText, resultVars, serviceVars, pureVars>>

\* the document call gets a reply (322-332)
DocumentReply(reply) ==
    CASE reply.json = "invalid" -> Caught(reply.error)
      [] reply.json = "null"    -> Caught(NullReplyError)
      [] OTHER ->
            /\ Return("doc", [hasElements |-> reply.hasElements, elements |-> reply.elements])
            /\ UNCHANGED <<fn, attempt, lastError, sleepUs, calls, sleepCount>>
            /\ UNCHANGED <<inputVars, walkVars, diagramText, obsVars>>

\* { success: true, ...parsed }
WithSuccess(parsed) == parsed @@ [success |-> TRUE]

\* the diagram call gets a reply (138-154)
DiagramReply(reply) ==
    CASE reply.json = "invalid" -> Caught(reply.error)
      [] OTHER ->
            /\ Return("dia", WithSuccess(reply.value))
            /\ UNCHANGED <<fn, attempt, lastError, sleepUs, calls, sleepCount>>
            /\ UNCHANGED <<inputVars, walkVars, diagramText, obsVars>>

\* the locals of the AI function are gone once its caller has its value
ClearLoop ==
    /\ fn' = "none"
    /\ attempt' = 0
    /\ lastError' = NoError
    /\ sleepUs' = 0
    /\ calls' = 0
    /\ sleepCount' = 0
    /\ replies' = 0
    /\ diagramText' = <<>>

(***************************************************************************)
(* The backend met by a conversion.                                        *)
(***************************************************************************)
\* model.generateContent rejects
CallFails ==
    /\ pc \in {"doc_call", "dia_call"}
    /\ \E error \in ConversionErrors : Caught(error)
    /\ UNCHANGED <<replies, serviceVars, pureVars>>

DocCallReplies ==
    /\ pc = "doc_call"
    /\ \E reply \in ConversionDocReplies : DocumentReply(reply)
    /\ replies' = replies + 1
    /\ UNCHANGED <<serviceVars, pureVars>>

DiagramCallReplies ==
    /\ pc = "dia_call"
    /\ \E reply \in ConversionDiagramReplies : DiagramReply(reply)
    /\ replies' = replies + 1
    /\ UNCHANGED <<serviceVars, pureVars>>

\* the conversion-level state a position of convertToDocx belongs to
Phase(p) ==
    CASE p = "start"                                      -> "START"
      [] p \in {"doc_call", "doc_sleep", "doc_returned"}  -> "AI_PARSE_ATTEMPT"
      [] p = "render_ai"                                  -> "RENDER_AI"
      [] p = "local_parse"                                -> "LOCAL_PARSE"
      [] p \in {"local", "dia_call", "dia_sleep", "dia_returned"} -> "RENDER_LOCAL"
      [] p = "assemble"                                   -> "ASSEMBLE"
      [] OTHER                                            -> "NONE"

(***************************************************************************)
(* convertToDocx (docxConverter.js 56-98).                                 *)
(***************************************************************************)
\* a request arrives
StartConversion ==
    /\ pc = "idle"
    /\ \E md \in Markdowns, ai \in BOOLEAN :
           /\ markdown' = md
           /\ useAI' = ai
    /\ pc' = "start"
    /\ docElements' = <<>>
    /\ usedAI' = FALSE
    /\ path' = <<Phase(pc')>>
    /\ UNCHANGED <<tokens, idx, diagramText, loopVars, resultVars, serviceVars, pureVars>>

\* if (useAI && isGeminiAvailable()), and parseDocumentWithAI up to its
\* first backend call
TryAI ==
    /\ pc = "start"
    /\ useAI /\ isGeminiAvailable
    /\ EnterFunction("doc", <<>>)
    /\ path' = Append(path, Phase(pc'))
    /\ UNCHANGED <<inputVars, walkVars, serviceVars, pureVars>>

SkipAI ==
    /\ pc = "start"
    /\ ~(useAI /\ isGeminiAvailable)
    /\ pc' = "local_parse"
    /\ path' = Append(path, Phase(pc'))
    /\ UNCHANGED <<inputVars, walkVars, diagramText, loopVars, resultVars>>
    /\ UNCHANGED <<serviceVars, pureVars>>

\* the test without its length check
HasElementsNoLength(parsed) ==
    /\ ~Has(parsed, "null")
    /\ parsed.hasElements

\* if (aiParsed && aiParsed.elements && aiParsed.elements.length > 0)
HasElements(parsed) ==
    /\ ~Has(parsed, "null")
    /\ parsed.hasElements
    /\ Len(parsed.elements) > 0

DocReturned ==
    /\ pc = "doc_returned"
    /\ pc' = (IF HasElements(aiParsed) THEN "render_ai" ELSE "local_parse")
    /\ path' = Append(path, Phase(pc'))
    /\ ClearLoop
    /\ UNCHANGED <<inputVars, walkVars, resultVars, serviceVars, pureVars>>

\* a raise of processAIParsedElements that no handler catches
RenderRaisedUncaught == "raised"

\* where a raise of processAIParsedElements lands: the catch of line 69
RenderRaised == "local_parse"

\* the elements rendered before the raise pushed onto docElements itself
ElementsOnRaiseKept(rendered) == docElements \o rendered

\* processAIParsedElements fills an array of its own, and the assignment to
\* docElements does not happen when it raises
ElementsOnRaise(rendered) == docElements

\* docElements = await processAIParsedElements(aiParsed); usedAI = true
RenderAI ==
    /\ pc = "render_ai"
    /\ LET r == processAIParsedElements(aiParsed)
       IN  IF r.raised
           THEN /\ pc' = RenderRaised
                /\ docElements' = ElementsOnRaise(r.elements)
                /\ UNCHANGED usedAI
           ELSE /\ pc' = "assemble"
                /\ docElements' = r.elements
                /\ usedAI' = TRUE
    /\ path' = Append(path, Phase(pc'))
    /\ UNCHANGED <<inputVars, tokens, idx, diagramText, loopVars, resultVars>>
    /\ UNCHANGED <<serviceVars, pureVars>>

\* if (!usedAI): const tokens = parseToTokens(markdown)
LocalParse ==
    /\ pc = "local_parse"
    /\ ~usedAI
    /\ tokens' = parseToTokens(markdown)
    /\ idx' = 1
    /\ pc' = "local"
    /\ path' = Append(path, Phase(pc'))
    /\ UNCHANGED <<inputVars, docElements, usedAI, diagramText, loopVars, resultVars,
                   serviceVars, pureVars>>

(***************************************************************************)
(* processTokens (402-469) and createDiagramBlock (628-743).               *)
(***************************************************************************)
ProcessToken ==
    /\ pc = "local"
    /\ idx <= Len(tokens)
    /\ LET token == tokens[idx]
       IN  CASE token.type = "paragraph_open" ->
                   /\ docElements' =
                          IF idx + 1 <= Len(tokens) /\ tokens[idx + 1].type = "inline"
                          THEN Append(docElements, Elem("paragraph", idx))
                          ELSE docElements
                   /\ idx' = idx + 3
                   /\ UNCHANGED <<pc, diagramText, loopVars, resultVars>>
             [] token.type \in {"fence", "code_block"} /\ isAsciiDiagram(token.content) ->
                   \* createDiagramBlock calls convertDiagramWithAI
                   /\ EnterFunction("dia", token.content)
                   /\ UNCHANGED <<docElements, idx>>
             [] token.type \in {"fence", "code_block"} /\ ~isAsciiDiagram(token.content) ->
                   /\ docElements' = docElements \o createCodeBlock(token.content, token.info, idx)
                   /\ idx' = idx + 1
                   /\ UNCHANGED <<pc, diagramText, loopVars, resultVars>>
             [] OTHER ->
                   /\ idx' = idx + 1
                   /\ UNCHANGED <<pc, docElements, diagramText, loopVars, resultVars>>
    /\ UNCHANGED <<inputVars, tokens, usedAI, path, serviceVars, pureVars>>

\* createDiagramBlock has its analysis and returns its elements
DiagramReturned ==
    /\ pc = "dia_returned"
    /\ docElements' = docElements \o createDiagramBlock(diagramText, analysis, idx)
    /\ idx' = idx + 1
    /\ pc' = "local"
    /\ analysis' = NullValue
    /\ ClearLoop
    /\ UNCHANGED <<inputVars, tokens, usedAI, aiParsed, obsVars, serviceVars, pureVars>>

\* the for loop of processTokens ends
TokensDone ==
    /\ pc = "local"
    /\ idx > Len(tokens)
    /\ pc' = "assemble"
    /\ path' = Append(path, Phase(pc'))
    /\ UNCHANGED <<inputVars, walkVars, diagramText, loopVars, resultVars>>
    /\ UNCHANGED <<serviceVars, pureVars>>

\* new Document(..); return await Packer.toBuffer(doc)
Assemble ==
    /\ pc = "assemble"
    /\ pc' = "done"
    /\ UNCHANGED <<inputVars, walkVars, diagramText, loopVars, resultVars, obsVars>>
    /\ UNCHANGED <<serviceVars, pureVars>>

\* the caller has its buffer
Finish ==
    /\ pc = "done"
    /\ pc' = "idle"
    /\ markdown' = <<>>
    /\ useAI' = FALSE
    /\ tokens' = <<>>
    /\ idx' = 1
    /\ docElements' = <<>>
    /\ usedAI' = FALSE
    /\ aiParsed' = NullValue
    /\ analysis' = NullValue
    /\ path' = <<>>
    /\ UNCHANGED <<diagramText, loopVars, serviceVars, pureVars>>

ConvWork ==
    \/ TryAI
    \/ SkipAI
    \/ CallFails
    \/ SleepDone
    \/ DocCallReplies
    \/ DiagramCallReplies
    \/ DocReturned
    \/ RenderAI
    \/ LocalParse
    \/ ProcessToken
    \/ DiagramReturned
    \/ TokensDone
    \/ Assemble

ConvStep ==
    \/ ConvWork
    \/ Finish

Init == ServiceInit /\ ConvInit /\ FallbackIdle /\ ClassifyIdle /\ CallIdle /\ EditorIdle

Next ==
    \/ \E outcome \in {"nokey", "ok", "throws"} : initializeGemini(outcome)
    \/ disableGemini
    \/ enableGemini
    \/ StartConversion
    \/ ConvStep

Spec == Init /\ [][Next]_vars

\* every backend call is answered or rejected, every timer fires, and the
\* event loop runs the continuation of a request that can go on
FairSpec == Spec /\ WF_vars(ConvStep)

(***************************************************************************)
(* The two AI functions called on their own, against every backend         *)
(* behaviour of ApiErrors, DocReplies and DiagramReplies.                  *)
(***************************************************************************)
\* parseDocumentWithAI(markdown)
CallParseDocument ==
    /\ pc = "idle"
    /\ EnterFunction("doc", <<>>)
    /\ UNCHANGED <<inputVars, walkVars, path, serviceVars, pureVars>>

\* convertDiagramWithAI(asciiDiagram)
CallConvertDiagram ==
    /\ pc = "idle"
    /\ \E text \in DiagramTexts : EnterFunction("dia", text)
    /\ UNCHANGED <<inputVars, walkVars, path, serviceVars, pureVars>>

AnyCallFails ==
    /\ pc \in {"doc_call", "dia_call"}
    /\ \E error \in ApiErrors : Caught(error)
    /\ UNCHANGED <<replies, serviceVars, pureVars>>

AnyDocReply ==
    /\ pc = "doc_call"
    /\ \E reply \in DocReplies : DocumentReply(reply)
    /\ replies' = replies + 1
    /\ UNCHANGED <<serviceVars, pureVars>>

AnyDiagramReply ==
    /\ pc = "dia_call"
    /\ \E reply \in DiagramReplies : DiagramReply(reply)
    /\ replies' = replies + 1
    /\ UNCHANGED <<serviceVars, pureVars>>

\* the caller has the value
FunctionReturned ==
    /\ pc \in {"doc_returned", "dia_returned"}
    /\ pc' = "idle"
    /\ aiParsed' = NullValue
    /\ analysis' = NullValue
    /\ ClearLoop
    /\ UNCHANGED <<inputVars, walkVars, path, serviceVars, pureVars>>

RetryNext ==
    \/ \E outcome \in {"nokey", "ok", "throws"} : initializeGemini(outcome)
    \/ disableGemini
    \/ enableGemini
    \/ CallParseDocument
    \/ CallConvertDiagram
    \/ AnyCallFails
    \/ SleepDone
    \/ AnyDocReply
    \/ AnyDiagramReply
    \/ FunctionReturned

RetrySpec == Init /\ [][RetryNext]_vars

(***************************************************************************)
(* convertToDocx called twice with the same arguments, the service         *)
(* switches being left alone from the first call on.                       *)
(***************************************************************************)
\* the switches are set before the first call
IdleService ==
    /\ pc = "idle"
    /\ argument = <<>>
    /\ \/ \E outcome \in {"nokey", "ok", "throws"} : initializeGemini(outcome)
       \/ disableGemini
       \/ enableGemini

\* convertToDocx(markdown, useAI) begins
Begin(md, ai) ==
    /\ markdown' = md
    /\ useAI' = ai
    /\ pc' = "start"
    /\ docElements' = <<>>
    /\ usedAI' = FALSE
    /\ path' = <<Phase(pc')>>
    /\ UNCHANGED <<tokens, idx, diagramText, loopVars, resultVars, serviceVars>>

FirstRequest ==
    /\ pc = "idle"
    /\ argument = <<>>
    /\ \E md \in Markdowns, ai \in BOOLEAN :
           /\ Begin(md, ai)
           /\ argument' = [fn |-> "convertToDocx", markdown |-> md, useAI |-> ai,
                           model |-> model, useGemini |-> useGemini]
    /\ UNCHANGED <<result, fbVars, clsVars, editorVars>>

\* the first call returns: its elements are kept for comparison
FirstReturned ==
    /\ pc = "done"
    /\ ~result.returned
    /\ result' = Returned(docElements)
    /\ pc' = "idle"
    /\ markdown' = <<>>
    /\ useAI' = FALSE
    /\ tokens' = <<>>
    /\ idx' = 1
    /\ docElements' = <<>>
    /\ usedAI' = FALSE
    /\ aiParsed' = NullValue
    /\ analysis' = NullValue
    /\ path' = <<>>
    /\ UNCHANGED <<diagramText, loopVars, serviceVars, argument, fbVars, clsVars, editorVars>>

SameRequest ==
    /\ pc = "idle"
    /\ result.returned
    /\ model = argument.model
    /\ useGemini = argument.useGemini
    /\ Begin(argument.markdown, argument.useAI)
    /\ UNCHANGED pureVars

RepeatNext ==
    \/ IdleService
    \/ FirstRequest
    \/ ConvWork
    \/ FirstReturned
    \/ SameRequest

RepeatSpec == Init /\ [][RepeatNext]_vars

(***************************************************************************)
(* The service switches on their own: argument is the sequence of the      *)
(* calls made so far.                                                      *)
(***************************************************************************)
\* calls of the service functions in a row
MaxServiceCalls == 4

LoggedCall ==
    /\ Len(argument) < MaxServiceCalls
    /\ \E call \in {"nokey", "ok", "throws", "disable", "enable"} :
           /\ ServiceCall(call)
           /\ argument' = Append(argument, call)
    /\ UNCHANGED <<result, fbVars, clsVars, editorVars, convVars>>

ServiceNext == LoggedCall

ServiceSpec == Init /\ [][ServiceNext]_vars

(***************************************************************************)
(* The fallback analyzer on its own, over diagram texts.                   *)
(***************************************************************************)
FallbackInit ==
    /\ ServiceInit
    /\ ConvInit
    /\ fbInput \in FallbackInputs
    /\ fbResult = NoResult
    /\ ClassifyIdle
    /\ CallIdle
    /\ EditorIdle

\* one call of the fallback analyzer on the diagram text
AnalyzeFallback ==
    /\ fbResult = NoResult
    /\ fbResult' = fallbackDiagramConversion(fbInput)
    /\ UNCHANGED <<fbInput, clsVars, callVars, editorVars, serviceVars, convVars>>

FallbackNext == AnalyzeFallback

FallbackSpec == FallbackInit /\ [][FallbackNext]_vars

(***************************************************************************)
(* The two retry tests on their own, over every error they can tell apart. *)
(***************************************************************************)
ClassifyInit ==
    /\ ServiceInit
    /\ ConvInit
    /\ FallbackIdle
    /\ clsError \in AllErrors
    /\ clsResult = NoClass
    /\ CallIdle
    /\ EditorIdle

\* both catch blocks compute isRetryable for the error
Classify ==
    /\ clsResult = NoClass
    /\ clsResult' = [dia |-> isRetryable("dia", clsError),
                     doc |-> isRetryable("doc", clsError)]
    /\ UNCHANGED <<clsError, fbVars, callVars, editorVars, serviceVars, convVars>>

ClassifyNext == Classify

ClassifySpec == ClassifyInit /\ [][ClassifyNext]_vars

(***************************************************************************)
(* The functions of the parser and of the renderer called on their own.    *)
(***************************************************************************)
\* longest text given to isAsciiDiagram, in characters
MaxDetectLen == 2

\* the glyphs of boxChars, and characters that are not: letters, blanks,
\* ASCII art, an arrow and a heavy line of the neighbouring code points
DetectChars == BoxChars \cup {"a", " ", NL, "-", "|", "+", "u2192", "u2503"}

\* most rows of a table, and most cells of a row
MaxRows == 3

MaxCells == 3

\* a table by the cell counts of its rows, the first one its header row
TableShapes == SeqsUpTo(0..MaxCells, MaxRows)

\* longest token sequence given to processTokens and findClosingToken
MaxTokens == 4

TokenTypes ==
    {"table_open", "table_close", "bullet_list_open", "bullet_list_close",
     "blockquote_open", "blockquote_close", "heading_open", "paragraph_open",
     "inline", "hr"}

OpenTypes == {"table_open", "bullet_list_open", "blockquote_open"}

\* every token sequence of these types, well formed or not
TokenSeqs == SeqsUpTo({[type |-> t] : t \in TokenTypes}, MaxTokens)

\* longest inline token sequence given to processInlineTokens
MaxInline == 6

InlineTypes == {"text", "strong_open", "strong_close", "s_open", "s_close"}

\* the spans of the sequence are closed in the reverse of the order they
\* were opened in; stack holds the close types awaited
RECURSIVE Balanced(_, _)
Balanced(types, stack) ==
    IF types = <<>> THEN stack = <<>>
    ELSE LET t == Head(types)
         IN  CASE t = "strong_open" -> Balanced(Tail(types), <<"strong_close">> \o stack)
               [] t = "s_open"      -> Balanced(Tail(types), <<"s_close">> \o stack)
               [] t = "text"        -> Balanced(Tail(types), stack)
               [] OTHER -> stack # <<>> /\ Head(stack) = t /\ Balanced(Tail(types), Tail(stack))

\* the values a caller may pass for markdown
JsValues ==
    [type : {"null", "undefined", "object"}, value : {<<>>}]
        \cup [type : {"number"}, value : {0, 7}]
        \cup [type : {"boolean"}, value : BOOLEAN]
        \cup [type : {"string"}, value : Markdowns]

\* !v
Falsy(v) ==
    \/ v.type \in {"null", "undefined"}
    \/ v.type = "number" /\ v.value = 0
    \/ v.type = "boolean" /\ ~v.value
    \/ v.type = "string" /\ v.value = <<>>

\* the guard without its first operand
SkipsParserByType(v) == v.type # "string"

\* !markdown || typeof markdown !== 'string'
SkipsParser(v) == Falsy(v) \/ v.type # "string"

\* most segments of a paragraph
MaxSegments == 3

\* longest string of a reply, in characters
MaxBodyLen == 3

\* the calls made: the function and its arguments
CallInputs ==
    [fn : {"isAsciiDiagram"}, code : SeqsUpTo(DetectChars, MaxDetectLen)]
        \cup [fn : {"createTable", "createAITable"}, shape : TableShapes]
        \cup [fn : {"processTokens"}, tag : {<<"h", l>> : l \in {1, 6}},
               segs : SeqsUpTo(SeqsUpTo({"strong", "em", "link"}, 2), MaxSegments)]
        \cup [fn : {"parseMarkdown", "parseToTokens"}, markdown : JsValues]
        \cup { a \in [fn : {"findClosingToken"}, tokens : TokenSeqs,
                       startIndex : 1..MaxTokens] :
                   /\ a.startIndex <= Len(a.tokens)
                   /\ a.tokens[a.startIndex].type \in OpenTypes }
        \cup [fn : {"walkTokens"}, tokens : TokenSeqs]
        \cup [fn : {"createDiagram"}, diagram : DiagramObjects]
        \cup [fn : {"processInlineTokens"},
               types : {ts \in SeqsUpTo(InlineTypes, MaxInline) : Balanced(ts, <<>>)}]
        \cup [fn : {"decodeReply"}, body : SeqsUpTo({"a", " ", "tick"}, MaxBodyLen)]

\* everything but the function called stays as it is
CallInit ==
    /\ ServiceInit
    /\ ConvInit
    /\ FallbackIdle
    /\ ClassifyIdle
    /\ argument \in CallInputs
    /\ result = NotCalled
    /\ EditorIdle

CallReturns(f, v) ==
    /\ result = NotCalled
    /\ argument.fn = f
    /\ result' = Returned(v)
    /\ UNCHANGED <<argument, fbVars, clsVars, editorVars, serviceVars, convVars>>

\* isAsciiDiagram(code)
Detect == CallReturns("isAsciiDiagram", isAsciiDiagram(argument.code))

\* createTable(tableTokens)
RenderTable == CallReturns("createTable", createTable(TableTokens(argument.shape)))

\* createAITable(elem.headers, elem.rows)
RenderAITable ==
    CallReturns("createAITable",
                IF argument.shape = <<>>
                THEN createAITable(<<>>, <<>>)
                ELSE createAITable(Cells(Head(argument.shape)),
                                   [k \in 1..(Len(argument.shape) - 1) |->
                                        Cells(argument.shape[k + 1])]))

\* the reply text as it is, and wrapped in ```json and ```: what the
\* clean-up and JSON.parse of either AI function make of both
DecodeReply ==
    CallReturns("decodeReply",
                [plain   |-> JSONParse(CleanReply(JsonText(argument.body))),
                 wrapped |-> JSONParse(CleanReply(JsonFence \o <<NL>>
                                 \o JsonText(argument.body) \o <<NL>> \o Fence))])

\* processTokens on a heading followed by a paragraph: the level of the
\* heading and the runs of the paragraph
RenderParagraph ==
    CallReturns("processTokens",
                [level |-> HeadingLevel(argument.tag),
                 runs  |-> processInlineTokens(InlineTokens(argument.segs, 1))])

\* parseMarkdown: '' or mdParser.render(markdown), the HTML of the blocks
CallParseMarkdown ==
    CallReturns("parseMarkdown",
                IF SkipsParser(argument.markdown)
                THEN [parser |-> FALSE, type |-> "string", value |-> <<>>]
                ELSE [parser |-> TRUE, type |-> "string",
                      value |-> [k \in 1..Len(argument.markdown.value) |->
                                     argument.markdown.value[k].kind]])

\* parseToTokens: [] or mdParser.parse(markdown, {})
CallParseToTokens ==
    CallReturns("parseToTokens",
                IF SkipsParser(argument.markdown)
                THEN [parser |-> FALSE, type |-> "array", value |-> <<>>]
                ELSE [parser |-> TRUE, type |-> "array",
                      value |-> parseToTokens(argument.markdown.value)])

\* findClosingToken as processTokens calls it for the open token at
\* startIndex
FindClosing ==
    CallReturns("findClosingToken",
                findClosingToken(argument.tokens, argument.startIndex,
                                 CloseTypeOf(argument.tokens[argument.startIndex].type)))

\* processTokens(tokens, elements) on a token sequence
Walk == CallReturns("walkTokens", processTokens(argument.tokens))

\* one diagram description rendered by createAIDiagram, and by
\* createDiagramBlock as the analysis of a diagram text
RenderDiagram ==
    CallReturns("createDiagram",
                [ai    |-> createAIDiagram(argument.diagram, 1),
                 local |-> createDiagramBlock(DiagramText, argument.diagram, 1)])

\* processInlineTokens on the tokens of the types given; the content of a
\* token is its index
RenderInline ==
    CallReturns("processInlineTokens",
                processInlineTokens([k \in 1..Len(argument.types) |->
                                        InlineToken(argument.types[k], k)]))

CallNext ==
    \/ Detect
    \/ RenderInline
    \/ RenderDiagram
    \/ Walk
    \/ FindClosing
    \/ CallParseMarkdown
    \/ CallParseToTokens
    \/ RenderParagraph
    \/ DecodeReply
    \/ RenderTable
    \/ RenderAITable

CallSpec == CallInit /\ [][CallNext]_vars

(***************************************************************************)
(* The editor script that previews and auto-saves (part_000 277, 355-395). *)
(* Time passes in steps of 50 ms while a timeout is pending.               *)
(***************************************************************************)
\* input events the editor gets
MaxInputs == 6

\* debounce(updatePreview, 300)
PreviewDelay == 300

\* debounce(saveToCache, 1000)
SaveDelay == 1000

\* debounce(func, delay): clearTimeout(debounceTimer);
\* debounceTimer = setTimeout(func, delay)
debounce(st, func, delay) ==
    LET timer == [func |-> func, left |-> delay]
    IN  [timers |-> (st.timers \ {st.debounceTimer}) \cup {timer}, debounceTimer |-> timer]

\* the listener of the input event of markdownInput
Input ==
    /\ inputs < MaxInputs
    /\ inputs' = inputs + 1
    /\ LET st0 == [timers |-> timers, debounceTimer |-> debounceTimer]
           st1 == debounce(st0, "updatePreview", PreviewDelay)
           st2 == debounce(st1, "saveToCache", SaveDelay)
       IN  /\ timers' = st2.timers
           /\ debounceTimer' = st2.debounceTimer
    /\ previewed' = FALSE
    /\ saved' = FALSE
    /\ UNCHANGED <<serviceVars, convVars, fbVars, clsVars, callVars>>

\* 50 ms pass and no pending timeout is due
Tick ==
    /\ timers # {}
    /\ \A t \in timers : t.left > 0
    /\ LET later(t) == [t EXCEPT !.left = IF t.left > 50 THEN t.left - 50 ELSE 0]
       IN  /\ timers' = {later(t) : t \in timers}
           /\ debounceTimer' = IF debounceTimer \in timers
                               THEN later(debounceTimer) ELSE debounceTimer
    /\ UNCHANGED <<inputs, previewed, saved>>
    /\ UNCHANGED <<serviceVars, convVars, fbVars, clsVars, callVars>>

\* a due timeout runs its function
Fire ==
    /\ \E t \in timers :
           /\ t.left = 0
           /\ timers' = timers \ {t}
           /\ previewed' = (previewed \/ t.func = "updatePreview")
           /\ saved' = (saved \/ t.func = "saveToCache")
    /\ UNCHANGED <<debounceTimer, inputs>>
    /\ UNCHANGED <<serviceVars, convVars, fbVars, clsVars, callVars>>

EditorNext ==
    \/ Input
    \/ Tick
    \/ Fire

\* time passes, and a due timeout is run
EditorSpec == Init /\ [][EditorNext]_vars /\ WF_vars(Tick) /\ WF_vars(Fire)

(***************************************************************************)
(* Properties of a conversion.                                             *)
(***************************************************************************)
\* C1: while a conversion started with useAI = false is in progress, no
\* request to the AI backend is outstanding and no backend call is made for
\* it, whatever the service switches are.
C1_NoBackendWhenAIOff ==
    (pc # "idle" /\ ~useAI) => (pc \notin {"doc_call", "dia_call"} /\ calls = 0)

IsPrefix(p, q) == Len(p) <= Len(q) /\ p = SubSeq(q, 1, Len(p))

\* the two paths of the conversion-level state machine, the second one from
\* either of its entries
AIPath == <<"START", "AI_PARSE_ATTEMPT", "RENDER_AI", "ASSEMBLE">>

AIFallbackPath ==
    <<"START", "AI_PARSE_ATTEMPT", "LOCAL_PARSE", "RENDER_LOCAL", "ASSEMBLE">>

LocalPath == <<"START", "LOCAL_PARSE", "RENDER_LOCAL", "ASSEMBLE">>

\* the path of a conversion whose rendering of the AI elements raised
RenderFallbackPath ==
    <<"START", "AI_PARSE_ATTEMPT", "RENDER_AI", "LOCAL_PARSE", "RENDER_LOCAL", "ASSEMBLE">>

\* C2 as stated: a conversion follows one of the two listed paths, RENDER_AI
\* is entered only with a result of the AI parse attempt, LOCAL_PARSE only
\* from START with AI disabled or unavailable or from AI_PARSE_ATTEMPT with a
\* null result, and never after RENDER_AI.
C2_ListedPaths ==
    /\ IsPrefix(path, AIPath) \/ IsPrefix(path, AIFallbackPath) \/ IsPrefix(path, LocalPath)
    /\ pc = "render_ai" => aiParsed # NullValue
    /\ (pc = "local_parse" /\ Len(path) = 2) => ~(useAI /\ isGeminiAvailable)
    /\ (pc = "local_parse" /\ Len(path) = 3) => aiParsed = NullValue
    /\ \A i, j \in 1..Len(path) : path[i] = "RENDER_AI" /\ path[j] = "LOCAL_PARSE" => j < i

\* C2: a conversion follows one of the listed paths or the path on which
\* RENDER_AI raises and LOCAL_PARSE follows it; RENDER_AI is entered only
\* with an AI result that has at least one element; LOCAL_PARSE is entered
\* only from START with AI disabled or unavailable, from AI_PARSE_ATTEMPT
\* with a null result or a result without elements, or from RENDER_AI when
\* an element cannot be rendered; a conversion whose RENDER_AI completed
\* goes to ASSEMBLE and never enters LOCAL_PARSE.
C2_Paths ==
    /\ \/ IsPrefix(path, AIPath)
       \/ IsPrefix(path, AIFallbackPath)
       \/ IsPrefix(path, LocalPath)
       \/ IsPrefix(path, RenderFallbackPath)
    /\ pc = "render_ai" =>
           /\ aiParsed # NullValue
           /\ aiParsed.hasElements
           /\ Len(aiParsed.elements) >= 1
    /\ (pc = "local_parse" /\ Len(path) = 2) => ~(useAI /\ isGeminiAvailable)
    /\ (pc = "local_parse" /\ Len(path) = 3) =>
           \/ aiParsed = NullValue
           \/ ~aiParsed.hasElements
           \/ aiParsed.elements = <<>>
    /\ (pc = "local_parse" /\ Len(path) = 4) =>
           /\ ~usedAI
           /\ \E i \in 1..Len(aiParsed.elements) :
                  aiParsed.elements[i] = [type |-> "code", payload |-> "missing"]
    /\ usedAI => (pc \in {"assemble", "done"} /\ IsPrefix(path, AIPath))

\* a conversion has finished on the path through RENDER_AI and LOCAL_PARSE
C2_Witness ==
    /\ pc = "done"
    /\ path = RenderFallbackPath
    /\ ~usedAI

\* C3: every conversion that has started reaches ASSEMBLE and then returns
\* its document, whatever the backend answers.
C3_ConversionCompletes ==
    (pc = "start") ~> (pc = "done" /\ path # <<>> /\ path[Len(path)] = "ASSEMBLE")

\* a conversion whose AI parse attempt failed has returned a document made
\* by the local path
C3_Witness ==
    /\ pc = "done"
    /\ path = AIFallbackPath
    /\ aiParsed = NullValue
    /\ Len(docElements) > 0

\* the kinds of the output elements rendered from token or AI element i
KindsFrom(i) ==
    { docElements[k].kind : k \in { k \in 1..Len(docElements) : docElements[k].from = i } }

\* C11: in a conversion with useAI = false, every fence or code_block token
\* already rendered whose content holds a diagram glyph has given a title
\* banner, a description band and, when the text has fragments, a components
\* table, and no code line; every other one has given code lines only.
C11_DiagramsRendered ==
    ~useAI =>
        \A i \in 1..Len(tokens) :
            (i < idx /\ tokens[i].type \in {"fence", "code_block"}) =>
                IF isAsciiDiagram(tokens[i].content)
                THEN /\ "diagram_title" \in KindsFrom(i)
                     /\ "diagram_description" \in KindsFrom(i)
                     /\ UniqueContent(tokens[i].content) # <<>> =>
                            "components_table" \in KindsFrom(i)
                     /\ KindsFrom(i) \cap {"code_label", "code_line"} = {}
                ELSE /\ "code_line" \in KindsFrom(i)
                     /\ KindsFrom(i) \subseteq {"code_label", "code_line", "spacer"}

\* the glyph set: light lines, corners and junctions; double-line variants;
\* directional arrows; filled and outline markers
GlyphSet ==
    {"u2500", "u2502"} \cup {"u250C", "u2510", "u2514", "u2518"}
        \cup {"u251C", "u2524", "u252C", "u2534", "u253C"}
        \cup {"u2550", "u2551", "u2554", "u2557", "u255A", "u255D"}
        \cup {"u2560", "u2563", "u2566", "u2569", "u256C"}
        \cup {"u25BC", "u25B2", "u25C4", "u25BA"}
        \cup {"u25CF", "u25CB", "u25A0", "u25A1", "u25AA", "u25AB"}

\* C17: the output elements stand in the order of the blocks they were
\* made for, on the AI path (elements of the reply) and on the local path
\* (top-level tokens): no element of a later block precedes an element of an
\* earlier one.
C17_SourceOrder ==
    \A i, j \in 1..Len(docElements) :
        i < j => docElements[i].from <= docElements[j].from

C17_Witness ==
    /\ pc = "done"
    /\ usedAI
    /\ \E i, j \in 1..Len(docElements) : docElements[i].from < docElements[j].from

C20_RetriesOnlyInParseAttempt ==
    (pc \in {"doc_sleep", "dia_sleep"} \/ attempt > 0 \/ sleepCount > 0)
        => Phase(pc) = "AI_PARSE_ATTEMPT"

\* C20 for the conversion-level states: no state is entered twice, and a
\* backend call is retried only inside one run of an AI function, the
\* document parse in AI_PARSE_ATTEMPT or the analysis of one diagram in
\* RENDER_LOCAL, which makes at most maxRetries + 1 calls.
C20_RetriesInsideAIFunctions ==
    /\ \A i, j \in 1..Len(path) : i < j => path[i] # path[j]
    /\ calls <= maxRetries + 1
    /\ sleepCount <= maxRetries
    /\ (pc \in {"doc_sleep", "dia_sleep"} \/ attempt > 0 \/ sleepCount > 0)
           => \/ fn = "doc" /\ Phase(pc) = "AI_PARSE_ATTEMPT"
              \/ fn = "dia" /\ Phase(pc) = "RENDER_LOCAL"

C20_Witness ==
    /\ pc = "dia_call"
    /\ calls = maxRetries + 1
    /\ sleepCount = maxRetries
    /\ useAI
    /\ \E i \in 1..Len(path) : path[i] = "AI_PARSE_ATTEMPT"

\* the token type an element of the local path is rendered from
RenderedFrom(kind) ==
    IF kind = "paragraph" THEN {"paragraph_open"} ELSE {"fence", "code_block"}

\* C29: the local path starts from no element, so nothing rendered from AI
\* elements survives a raise; without AI rendering every element comes from
\* a token already processed, and after AI rendering the elements are those
\* of the AI elements and no token was parsed.
C29_PathsNotMixed ==
    /\ pc = "local_parse" => docElements = <<>>
    /\ (~usedAI /\ pc # "render_ai") =>
           \A k \in 1..Len(docElements) :
               /\ docElements[k].from \in 1..Len(tokens)
               /\ docElements[k].from <= idx
               /\ tokens[docElements[k].from].type \in RenderedFrom(docElements[k].kind)
    /\ usedAI =>
           /\ tokens = <<>>
           /\ docElements = RenderAIElementsFrom(aiParsed.elements, 1)

\* AI rendering raised, and the local path has rendered the document
C29_Witness ==
    /\ pc = "assemble"
    /\ ~usedAI
    /\ docElements # <<>>
    /\ \E i \in 1..Len(path) : path[i] = "RENDER_AI"

\* C12: isAsciiDiagram answers true exactly for the texts that hold at least
\* one character of the glyph set, wherever in the text it stands.
C12_DetectsGlyphs ==
    (result.returned /\ argument.fn = "isAsciiDiagram") =>
        (result.value <=> \E k \in 1..Len(argument.code) : argument.code[k] \in GlyphSet)

\* a text whose glyph is not its first character was accepted
C12_Witness ==
    /\ result = Returned(TRUE)
    /\ argument.fn = "isAsciiDiagram"
    /\ Len(argument.code) = 2
    /\ argument.code[1] = "a"
    /\ argument.code[2] \in GlyphSet

\* the largest of a non-empty sequence of numbers
MaxOf(ns) == CHOOSE n \in {ns[k] : k \in 1..Len(ns)} : \A k \in 1..Len(ns) : ns[k] <= n

\* C13: every row of the table createTable renders for a token range has as
\* many cells as the longest row of the range.
C13_LocalTablePadded ==
    (result.returned /\ argument.fn = "createTable" /\ result.value.table) =>
        \A k \in 1..Len(result.value.rows) :
            Len(result.value.rows[k]) = MaxOf(argument.shape)

\* a table whose rows have 1, 3 and 2 cells was rendered with padding cells
C13_Witness ==
    /\ result.returned
    /\ argument = [fn |-> "createTable", shape |-> <<1, 3, 2>>]
    /\ Len(result.value.rows) = 3
    /\ result.value.rows[1] = <<"th", "pad", "pad">>

\* C14: every row of the table createAITable renders, the header row
\* included, has as many cells as the longest of the header and data rows.
C14_AITablePadded ==
    (result.returned /\ argument.fn = "createAITable" /\ argument.shape # <<>>) =>
        \A k \in 1..Len(result.value.rows) :
            Len(result.value.rows[k]) = MaxOf(argument.shape)

\* C15: a reply text decodes to the object it denotes, with the string it
\* carries unchanged, and the text wrapped in code-fence markers decodes to
\* the same value.
C15_FenceStripping ==
    (result.returned /\ argument.fn = "decodeReply") =>
        /\ result.value.wrapped = result.value.plain
        /\ result.value.plain = [ok |-> TRUE, t |-> argument.body]

\* C16: the heading has the level of its tag, and the paragraph has one run
\* per text in source order; a run of a text that is not inside two spans of
\* one kind is bold exactly when the text is inside a strong span and italic
\* exactly when it is inside an emphasis span.
C16_InlineRuns ==
    (result.returned /\ argument.fn = "processTokens") =>
        LET runs == result.value.runs
            segs == argument.segs
        IN  /\ result.value.level = argument.tag[2]
            /\ Len(runs) = Len(segs)
            /\ \A k \in 1..Len(runs) :
                   /\ runs[k].text = k
                   /\ Len(segs[k]) = Cardinality({segs[k][j] : j \in 1..Len(segs[k])})
                      => /\ runs[k].bold <=> \E j \in 1..Len(segs[k]) : segs[k][j] = "strong"
                         /\ runs[k].italic <=> \E j \in 1..Len(segs[k]) : segs[k][j] = "em"

\* C18: parseMarkdown and parseToTokens return for every value passed; for
\* the empty string and for every value that is not a string parseMarkdown
\* returns the empty string and parseToTokens the empty array, and the
\* parser is not invoked.
C18_EmptyOnBadInput ==
    (argument.fn \in {"parseMarkdown", "parseToTokens"}) =>
        /\ result.returned \/ ENABLED CallNext
        /\ (/\ result.returned
            /\ argument.markdown.type # "string" \/ argument.markdown.value = <<>>)
           => /\ ~result.value.parser
              /\ result.value.value = <<>>
              /\ result.value.type =
                     (IF argument.fn = "parseMarkdown" THEN "string" ELSE "array")

C18_Witness ==
    /\ result.returned
    /\ argument.fn = "parseToTokens"
    /\ argument.markdown.type = "number"
    /\ argument.markdown.value = 7
    /\ result.value.value = <<>>

\* the close tokens less the open tokens of the family of the token at s,
\* among the tokens after s up to j
Excess(toks, s, j) ==
    Cardinality({k \in (s + 1)..j : toks[k].type = CloseTypeOf(toks[s].type)})
        - Cardinality({k \in (s + 1)..j : toks[k].type = toks[s].type})

\* C24: for an open token at s, findClosingToken returns the smallest j > s
\* at which the close tokens of its family after s exceed the open tokens
\* by one, and the last index when there is no such j.
C24_MatchingClose ==
    (result.returned /\ argument.fn = "findClosingToken") =>
        LET toks == argument.tokens
            s == argument.startIndex
            js == {j \in (s + 1)..Len(toks) : Excess(toks, s, j) = 1}
        IN  IF js = {}
            THEN result.value = Len(toks)
            ELSE result.value \in js /\ \A j \in js : result.value <= j

\* a nested pair is skipped
C24_Witness ==
    /\ result.returned
    /\ argument.fn = "findClosingToken"
    /\ argument.startIndex = 1
    /\ Len(argument.tokens) = 4
    /\ argument.tokens[2].type = argument.tokens[1].type
    /\ result.value = 4
    /\ Excess(argument.tokens, 1, 4) = 1

\* the index of the close token that matches the open token at s, 0 if
\* there is none
MatchOf(toks, s) ==
    LET js == {j \in (s + 1)..Len(toks) : Excess(toks, s, j) = 1}
    IN  IF js = {} THEN 0 ELSE CHOOSE j \in js : \A k \in js : j <= k

\* C23: when processTokens handles a table, list or blockquote open token
\* that has a matching close, it dispatches no token after the open token
\* up to the matching close, it goes on with the token just after the close,
\* and it handles the open token once.
C23_ResumesAfterClose ==
    (result.returned /\ argument.fn = "walkTokens") =>
        LET toks == argument.tokens
            ds   == result.value.dispatched
        IN  \A n \in 1..Len(ds) :
                /\ \A m \in 1..Len(ds) : m # n => ds[m] # ds[n]
                /\ (toks[ds[n]].type \in OpenTypes /\ MatchOf(toks, ds[n]) # 0)
                       => /\ \A m \in 1..Len(ds) :
                                 ds[m] <= ds[n] \/ ds[m] > MatchOf(toks, ds[n])
                          /\ MatchOf(toks, ds[n]) < Len(toks)
                                 => /\ n < Len(ds)
                                    /\ ds[n + 1] = MatchOf(toks, ds[n]) + 1

\* a block with a nested block of its type, and a token after it
C23_Witness ==
    /\ result.returned
    /\ argument.fn = "walkTokens"
    /\ Len(argument.tokens) = 4
    /\ argument.tokens[1].type = "blockquote_open"
    /\ argument.tokens[2].type = "inline"
    /\ argument.tokens[3].type = "blockquote_close"
    /\ argument.tokens[4].type = "hr"
    /\ result.value.dispatched = <<1, 4>>
    /\ result.value.elements = <<Elem("quote", 1), Elem("hr", 4)>>

\* C26: processTokens completes on every token sequence without raising.
C26_NeverRaises ==
    (result.returned /\ argument.fn = "walkTokens") => ~result.value.raised

\* C25: createAIDiagram and createDiagramBlock emit the same elements for
\* the same diagram description.
C25_SameDiagramRendering ==
    (result.returned /\ argument.fn = "createDiagram") =>
        /\ ~result.value.ai.raised
        /\ result.value.ai.elements = result.value.local

\* C28: createDiagramBlock emits either the complete diagram structure,
\* closed by its spacer and without any code-block element, or the code
\* block of the ASCII text and nothing else.
C28_AllOrNothing ==
    (result.returned /\ argument.fn = "createDiagram") =>
        LET es == result.value.local
        IN  \/ es = createCodeBlock(DiagramText, "text", 1)
            \/ /\ es # <<>>
               /\ es[Len(es)].kind = "spacer"
               /\ \A k \in 1..Len(es) : es[k].kind \notin {"code_label", "code_line"}

\* the spans of type open .. close that are open at token i
OpenSpans(types, i, open, close) ==
    Cardinality({k \in 1..(i - 1) : types[k] = open})
        - Cardinality({k \in 1..(i - 1) : types[k] = close})

\* C27: on balanced inline tokens, nested spans of one kind included, the
\* run of a text token is bold exactly when a strong span is open at the
\* token, and struck through exactly when an s span is open at it.
C27_FormattingWhileOpen ==
    (result.returned /\ argument.fn = "processInlineTokens") =>
        \A k \in 1..Len(result.value) :
            LET run == result.value[k]
            IN  /\ run.bold <=>
                       OpenSpans(argument.types, run.text, "strong_open", "strong_close") > 0
                /\ run.strike <=>
                       OpenSpans(argument.types, run.text, "s_open", "s_close") > 0

(***************************************************************************)
(* Properties of the retry loop.                                           *)
(***************************************************************************)
\* the transient signatures: a status or a message text that matches one of
\* 404, 429, 503, overloaded, temporarily, quota, rate
Transient(error) ==
    \/ error.status \in {404, 429, 503}
    \/ error.sigs \cap Signatures # {}

\* C4: a function that has returned after backend calls which all failed,
\* the last one with a transient error, has made exactly 3 calls and 2
\* sleeps and has returned its fallback value.  (A call that fails is
\* followed by another one only if its error is retried, and every error
\* that is retried is transient.)
C4_ThreeCallsOnTransient ==
    ( /\ pc \in {"doc_returned", "dia_returned"}
      /\ calls >= 1
      /\ replies = 0
      /\ Transient(lastError) ) =>
        /\ calls = 3
        /\ sleepCount = 2
        /\ pc = "doc_returned" => aiParsed = NullValue
        /\ pc = "dia_returned" => analysis = fallbackDiagramConversion(diagramText)

\* C5: a function whose first backend call has failed with an error that is
\* not transient has returned its fallback value, having made that one call
\* and no sleep.
C5_OneCallOnPermanent ==
    ( /\ fn # "none"
      /\ calls = 1
      /\ lastError.kind = "api"
      /\ ~Transient(lastError) ) =>
        /\ pc = ReturnedPc(fn)
        /\ sleepCount = 0
        /\ attempt = 0
        /\ fn = "doc" => aiParsed = NullValue
        /\ fn = "dia" => analysis = fallbackDiagramConversion(diagramText)

\* parseDocumentWithAI has returned null after one call that failed
\* with status 400
C5_Witness ==
    /\ pc = "doc_returned"
    /\ calls = 1
    /\ sleepCount = 0
    /\ lastError = Error("api", 400, {}, NoHint)
    /\ aiParsed = NullValue

\* C6: the two functions give the same answer for every error, and the
\* answer is whether the error's status or message matches a transient
\* signature.
C6_SameTest ==
    clsResult # NoClass =>
        /\ clsResult.dia = clsResult.doc
        /\ clsResult.dia = Transient(clsError)

\* the delay an error's text suggests, in whole milliseconds (NoHint: none)
SuggestedMs(error) ==
    IF error.hint = NoHint THEN NoHint ELSE CeilDiv(error.hint, 1000)

\* C7: the sleep before retry n (n = 1, 2) lasts min(s + 500, 20000) ms if
\* the previous error suggests s ms, and otherwise between 80% and 120% of
\* min(2000 * 2^(n-1), 20000) ms; before the first call nothing is slept.
C7_SleepDelay ==
    /\ pc \in {"doc_sleep", "dia_sleep"} =>
           /\ attempt \in {1, 2}
           /\ sleepCount = attempt
           /\ calls = attempt
           /\ IF SuggestedMs(lastError) # NoHint
              THEN sleepUs = 1000 * Min(SuggestedMs(lastError) + 500, 20000)
              ELSE LET nominal == Min(2000 * 2 ^ (attempt - 1), 20000)
                   IN  /\ 800 * nominal <= sleepUs
                       /\ sleepUs <= 1200 * nominal
    /\ pc \in {"doc_call", "dia_call"} => sleepCount = calls - 1

\* the second retry is being waited for with a jittered delay above the
\* nominal 4000 ms
C7_Witness ==
    /\ pc = "dia_sleep"
    /\ attempt = 2
    /\ lastError.hint = NoHint
    /\ sleepUs > 4000 * 1000

\* C8: once the reply of a document call could not be decoded, the function
\* has returned null; it neither sleeps nor calls again.
C8_DecodeFailureTerminal ==
    (fn = "doc" /\ lastError.kind = "decode") =>
        /\ pc = "doc_returned"
        /\ aiParsed = NullValue

\* the fields of a DiagramAnalysis
DiagramAnalysisFields ==
    {"success", "type", "title", "description", "components", "connections", "summary"}

\* C9: the value convertDiagramWithAI returns has every field of a
\* DiagramAnalysis, whether the backend or the fallback analyzer made it.
C9_FullShape ==
    pc = "dia_returned" => DiagramAnalysisFields \subseteq DOMAIN analysis

\* C21: a call of parseDocumentWithAI or convertDiagramWithAI that starts
\* while the switch is off makes no backend request and returns null,
\* respectively the fallback analysis; switching off while a call is in
\* flight changes nothing of that call, and its pending retry is still made.
C21_ToggleAffectsLaterCalls ==
    [][ /\ (pc = "idle" /\ pc' # "idle" /\ ~useGemini)
            => /\ calls' = 0
               /\ pc' = ReturnedPc(fn')
               /\ fn' = "doc" => aiParsed' = NullValue
               /\ fn' = "dia" => analysis' = fallbackDiagramConversion(diagramText')
        /\ (useGemini /\ ~useGemini') => UNCHANGED <<pc, loopVars, resultVars, diagramText>>
        /\ (~useGemini /\ pc \in {"doc_sleep", "dia_sleep"} /\ pc' # pc)
            => pc' = CallPc(fn) /\ calls' = calls + 1 ]_vars

C21_Witness ==
    /\ pc = "dia_call"
    /\ model /\ ~useGemini
    /\ calls = maxRetries + 1

(***************************************************************************)
(* Properties of the service switches.                                     *)
(***************************************************************************)
\* the outcome of the last initializeGemini call among the calls, "none"
\* if there is none
RECURSIVE LastInitialize(_)
LastInitialize(made) ==
    IF made = <<>> THEN "none"
    ELSE IF made[Len(made)] \in {"nokey", "ok", "throws"}
         THEN made[Len(made)]
         ELSE LastInitialize(SubSeq(made, 1, Len(made) - 1))

\* C30: isGeminiAvailable() is true only if the most recent initializeGemini
\* call succeeded.
C30_AvailableOnlyAfterSuccess ==
    isGeminiAvailable => LastInitialize(argument) = "ok"

(***************************************************************************)
(* Properties of the editor script.                                        *)
(***************************************************************************)
\* C22: once the last input event has happened, updatePreview is eventually
\* run and saveToCache is eventually run.
C22_PreviewAndSaveRun ==
    (inputs = MaxInputs) ~> (previewed /\ saved)

(***************************************************************************)
(* Properties of the fallback analyzer.                                    *)
(***************************************************************************)
\* the fragments the lines of a diagram text contribute, line by line
Fragments(text) ==
    LET lines == SplitLines(text)
    IN  [i \in 1..Len(lines) |-> CleanLine(lines[i])]

\* the first position of x in xs (0: none)
FirstIndex(xs, x) ==
    LET at == {i \in 1..Len(xs) : xs[i] = x}
    IN  IF at = {} THEN 0 ELSE CHOOSE i \in at : \A j \in at : i <= j

\* C10: the components returned by the fallback analyzer have pairwise
\* different names, every name is the fragment of a line of the text and
\* the names stand in the order of their first lines, there are at most 20
\* of them, none is 2 characters long or shorter, and connections is empty.
C10_FallbackComponents ==
    fbResult # NoResult =>
        LET comps == fbResult.components
            frags == Fragments(fbInput)
            first == [k \in 1..Len(comps) |-> FirstIndex(frags, comps[k].name)]
        IN  /\ \A i, j \in 1..Len(comps) : i < j => comps[i].name # comps[j].name
            /\ \A k \in 1..Len(comps) : first[k] > 0
            /\ \A i, j \in 1..Len(comps) : i < j => first[i] < first[j]
            /\ Len(comps) <= 20
            /\ \A k \in 1..Len(comps) : Len(comps[k].name) > 2
            /\ fbResult.connections = <<>>

\* a text with more than 20 different fragments, some drawn twice, has been
\* analyzed and 20 components came back
C10_Witness ==
    /\ fbResult # NoResult
    /\ Len(fbResult.components) = 20
    /\ LET frags == Fragments(fbInput)
       IN  /\ Cardinality({frags[i] : i \in 1..Len(frags)} \ {<<>>}) > 20
           /\ \E i, j \in 1..Len(frags) :
                  i < j /\ frags[i] = frags[j] /\ Len(frags[i]) > 2

====
